---- MODULE Spec2Model ----
(***************************************************************************)
(* A model of the Pocket API client of pocket.go: one Client, whose four   *)
(* public operations are called one after another.  A call that reaches    *)
(* client.Do blocks until the transport answers; the transport's answer    *)
(* (an error, or a response with a status, headers and a body) is chosen   *)
(* nondeterministically.                                                   *)
(*                                                                         *)
(* A Go string is a sequence of one-character strings, so that the query   *)
(* string decoding and the formatting of fmt.Sprintf are computed          *)
(* character by character.                                                 *)
(***************************************************************************)
EXTENDS Integers, Sequences, FiniteSets, TLC

(* ---------------------------- bounds ----------------------------------- *)

\* Most pieces (characters or escapes) of the token placed after a prefix in
\* a response body.
MaxTokLen == 2

\* Longest argument of GetAuthorizationURL.
MaxArgLen == 2

BoundedSeq(S, n) == UNION {[1..k -> S] : k \in 0..n}

(* ---------------------------- constants -------------------------------- *)

host == "https://getpocket.com/v3"

authorizeURL ==
    <<"h", "t", "t", "p", "s", ":", "/", "/", "g", "e", "t", "p", "o", "c",
      "k", "e", "t", ".", "c", "o", "m", "/", "a", "u", "t", "h", "/", "a",
      "u", "t", "h", "o", "r", "i", "z", "e", "?", "r", "e", "q", "u", "e",
      "s", "t", "_", "t", "o", "k", "e", "n", "=", "%", "s", "&", "r", "e",
      "d", "i", "r", "e", "c", "t", "_", "u", "r", "i", "=", "%", "s">>

endpointRequestToken == "/oauth/request"

endpointAuthorize == "/oauth/authorize"

endpointAdd == "/add"

xErrorHeader == "X-Error"

StatusOK == 200

MethodPost == "POST"

(* ---------------------------- errors ----------------------------------- *)

\* The nil error.
Nil == [msg |-> "<nil>", detail |-> <<>>, cause |-> "<nil>"]

\* errors.New(msg)
New(msg) == [msg |-> msg, detail |-> <<>>, cause |-> "<nil>"]

\* errors.Join(err, errors.New(msg)), err being a library error named cause
Join(cause, msg) == [msg |-> msg, detail |-> <<>>, cause |-> cause]

(* ---------------------------- strings ---------------------------------- *)

\* The printable ASCII characters, from byte 32 to byte 126 (the grave accent,
\* byte 96, is named by its number).
Ascii ==
    <<" ", "!", "\"", "#", "$", "%", "&", "'", "(", ")", "*", "+", ",", "-",
      ".", "/", "0", "1", "2", "3", "4", "5", "6", "7", "8", "9", ":", ";",
      "<", "=", ">", "?", "@", "A", "B", "C", "D", "E", "F", "G", "H", "I",
      "J", "K", "L", "M", "N", "O", "P", "Q", "R", "S", "T", "U", "V", "W",
      "X", "Y", "Z", "[", "\\", "]", "^", "_", "0x96", "a", "b", "c", "d", "e",
      "f", "g", "h", "i", "j", "k", "l", "m", "n", "o", "p", "q", "r", "s",
      "t", "u", "v", "w", "x", "y", "z", "{", "|", "}", "~">>

\* The character of a byte; a byte that is not printable ASCII is named by
\* its number.
Chr(n) == IF n \in 32..126 THEN Ascii[n - 31] ELSE "0x" \o ToString(n)

HexDigits ==
    {"0", "1", "2", "3", "4", "5", "6", "7", "8", "9",
     "a", "b", "c", "d", "e", "f", "A", "B", "C", "D", "E", "F"}

ishex(c) == c \in HexDigits

unhex(c) ==
    CASE c = "0" -> 0 [] c = "1" -> 1 [] c = "2" -> 2 [] c = "3" -> 3
      [] c = "4" -> 4 [] c = "5" -> 5 [] c = "6" -> 6 [] c = "7" -> 7
      [] c = "8" -> 8 [] c = "9" -> 9
      [] c \in {"a", "A"} -> 10 [] c \in {"b", "B"} -> 11
      [] c \in {"c", "C"} -> 12 [] c \in {"d", "D"} -> 13
      [] c \in {"e", "E"} -> 14 [] c \in {"f", "F"} -> 15
      [] OTHER -> 0

\* Index of the first occurrence of character c in s, 0 when there is none.
RECURSIVE IndexFrom(_, _, _)
IndexFrom(s, c, i) ==
    IF i > Len(s) THEN 0
    ELSE IF s[i] = c THEN i
    ELSE IndexFrom(s, c, i + 1)

Index(s, c) == IndexFrom(s, c, 1)

Contains(s, c) == Index(s, c) # 0

\* strings.Cut(s, sep) for a one-character sep: the text before and after
\* the first sep, or all of s and the empty string when s has no sep.
Cut(s, sep) ==
    LET i == Index(s, sep)
    IN  IF i = 0 THEN [before |-> s, after |-> <<>>, found |-> FALSE]
        ELSE [before |-> SubSeq(s, 1, i - 1),
              after |-> SubSeq(s, i + 1, Len(s)),
              found |-> TRUE]

\* strings.Join(elems, sep)
RECURSIVE StringsJoin(_, _)
StringsJoin(elems, sep) ==
    IF elems = <<>> THEN <<>>
    ELSE IF Len(elems) = 1 THEN elems[1]
    ELSE elems[1] \o sep \o StringsJoin(Tail(elems), sep)

\* fmt.Sprintf(format, args...) for string arguments and the verbs %s and
\* %v, the only ones in the formats of pocket.go: each verb is replaced by
\* the next argument, which is copied and not scanned again; a verb with no
\* argument left prints %!s(MISSING).
RECURSIVE Sprintf(_, _)
Sprintf(format, args) ==
    IF format = <<>> THEN <<>>
    ELSE IF Head(format) = "%" /\ Len(format) >= 2
    THEN LET verb == format[2]
             rest == SubSeq(format, 3, Len(format))
         IN  IF verb \in {"s", "v"}
             THEN IF args = <<>>
                  THEN <<"%", "!", verb, "(", "M", "I", "S", "S", "I", "N", "G", ")">>
                           \o Sprintf(rest, args)
                  ELSE Head(args) \o Sprintf(rest, Tail(args))
             ELSE <<"%">> \o Sprintf(rest, args)
    ELSE <<Head(format)>> \o Sprintf(Tail(format), args)

(* ---------------------------- net/url --------------------------------- *)

\* Whether every % of s is followed by two hexadecimal digits.
RECURSIVE validEscapes(_)
validEscapes(s) ==
    IF s = <<>> THEN TRUE
    ELSE IF Head(s) = "%"
    THEN /\ Len(s) >= 3
         /\ ishex(s[2])
         /\ ishex(s[3])
         /\ validEscapes(SubSeq(s, 4, Len(s)))
    ELSE validEscapes(Tail(s))

\* s with every %XY replaced by the byte XY and every + by a space.
RECURSIVE unescape(_)
unescape(s) ==
    IF s = <<>> THEN <<>>
    ELSE IF Head(s) = "%"
    THEN <<Chr(16 * unhex(s[2]) + unhex(s[3]))>> \o unescape(SubSeq(s, 4, Len(s)))
    ELSE IF Head(s) = "+" THEN <<" ">> \o unescape(Tail(s))
    ELSE <<Head(s)>> \o unescape(Tail(s))

\* url.QueryUnescape(s)
QueryUnescape(s) ==
    IF validEscapes(s) THEN [s |-> unescape(s), err |-> Nil]
    ELSE [s |-> <<>>, err |-> New("invalid URL escape")]

\* url.ParseQuery(query): the pairs of the query in their order, and the
\* first error met.  A pair with a semicolon or a bad escape is left out.
RECURSIVE parseQuery(_, _, _)
parseQuery(m, err, query) ==
    IF query = <<>> THEN [values |-> m, err |-> err]
    ELSE LET c    == Cut(query, "&")
             pair == c.before
             kv   == Cut(pair, "=")
             k    == QueryUnescape(kv.before)
             v    == QueryUnescape(kv.after)
             first(e) == IF err = Nil THEN e ELSE err
         IN  IF Contains(pair, ";")
             THEN parseQuery(m, New("invalid semicolon separator in query"), c.after)
             ELSE IF pair = <<>> THEN parseQuery(m, err, c.after)
             ELSE IF k.err # Nil THEN parseQuery(m, first(k.err), c.after)
             ELSE IF v.err # Nil THEN parseQuery(m, first(v.err), c.after)
             ELSE parseQuery(Append(m, <<k.s, v.s>>), err, c.after)

ParseQuery(query) == parseQuery(<<>>, Nil, query)

\* url.Values.Get(key): the first value of key, or the empty string.
RECURSIVE Get(_, _)
Get(values, key) ==
    IF values = <<>> THEN <<>>
    ELSE IF Head(values)[1] = key THEN Head(values)[2]
    ELSE Get(Tail(values), key)

\* http.Header.Get(key) on a header given as a set of <<name, value>> pairs.
HeaderGet(header, key) ==
    IF \E p \in header : p[1] = key
    THEN (CHOOSE p \in header : p[1] = key)[2]
    ELSE <<>>

(* ---------------------------- inputs ----------------------------------- *)

ConsumerKeys == {<<"k">>, <<"K", "2">>}

\* context.Context values a caller may pass.
Contexts == {"nil", "background"}

RedirectUris == {<<>>, <<"u">>, <<"%", "s">>}

RequestTokens == {<<>>, <<"r">>, <<"c", "o", "d", "e">>}

ArgChars == {"a", "%", "s"}

\* The arguments of GetAuthorizationURL.
UrlArgs == BoundedSeq(ArgChars, MaxArgLen)

AddInputs ==
    {[URL |-> u, Title |-> t[1], Tags |-> t[2], AccessToken |-> a] :
        u \in {<<>>, <<"u">>},
        t \in {<< <<>>, <<>> >>, << <<"t">>, <<(<<"a">>), (<<"b">>)>> >>},
        a \in {<<>>, <<"x">>}}

\* What client.Do returns as an error.
TransportErrors == {"timeout", "connection refused"}

Statuses == {StatusOK, 400}

Headers == {{}, {<<xErrorHeader, <<"e">> >>}}

\* The pieces response tokens are made of: two plain characters, the
\* characters the query-string decoding treats specially, and an escape.
TokPieces ==
    {<<"4">>, <<"=">>, <<"+">>, <<"%">>, <<"&">>, <<";">>, <<"%", "4", "4">>}

RECURSIVE Flatten(_)
Flatten(ss) == IF ss = <<>> THEN <<>> ELSE Head(ss) \o Flatten(Tail(ss))

Tokens == {Flatten(ps) : ps \in BoundedSeq(TokPieces, MaxTokLen)}

codeKey == <<"c", "o", "d", "e">>

accessTokenBody ==
    <<"a", "c", "c", "e", "s", "s", "_", "t", "o", "k", "e", "n", "=">>

BodyPrefixes == {<<>>, codeKey \o <<"=">>, accessTokenBody}

BodyTexts == {p \o t : p \in BodyPrefixes, t \in Tokens}

\* A response body: a reader that yields data, or fails.
Bodies ==
    {[data |-> b, readErr |-> FALSE] : b \in BodyTexts}
        \cup {[data |-> <<>>, readErr |-> TRUE]}

Response(status, header, body) ==
    [StatusCode |-> status, Header |-> header, Body |-> body]

(* ---------------------------- the client ------------------------------- *)

VARIABLES
    consumerKey,    \* Client.consumerKey
    pc,             \* "idle", "waiting" (inside client.Do) or "returned"
    call,           \* the operation being called and its arguments
    inflight,       \* the requests handed to client.Do and not yet answered
    sent,           \* how many requests this call handed to client.Do
    resp,           \* what client.Do returned to this call
    openBodies,     \* response bodies returned by client.Do and not closed
    ret             \* what the call returned

vars == <<consumerKey, pc, call, inflight, sent, resp, openBodies, ret>>

NoCall == [op |-> "none", ctx |-> "none", args |-> <<>>]

NoResp == [kind |-> "none"]

NoRet == [str |-> <<>>, err |-> Nil]

\* validate without its check of the access token.
validate_NoTokenCheck(i) ==
    IF i.URL = <<>> THEN New("required URL values is empty") ELSE Nil

\* AddInput.validate
validate(i) ==
    IF i.URL = <<>> THEN New("required URL values is empty")
    ELSE IF i.AccessToken = <<>> THEN New("access token is empty")
    ELSE Nil

\* AddInput.generateRequest
generateRequest(i, key) ==
    [Url |-> i.URL,
     Tags |-> StringsJoin(i.Tags, <<",">>),
     Title |-> i.Title,
     TweetId |-> 0,
     AccessToken |-> i.AccessToken,
     ConsumerKey |-> key]

\* NewClient: the keys a constructed Client can hold.
NewClient(key) == key # <<>>

\* doHTTP up to the call of client.Do: the error it returns before sending,
\* and the requests it hands to client.Do.
doHTTPSend(ctx, endpoint, body) ==
    IF ctx = "nil"
    THEN [err |-> Join("net/http: nil Context", "Failed to create request"),
          reqs |-> <<>>]
    ELSE [err |-> Nil,
          reqs |-> << [Method |-> MethodPost,
                       URL |-> host \o endpoint,
                       ContentType |-> "application/json; charset=UTF8",
                       Body |-> body] >>]

\* doHTTP when client.Do returns an error.
doHTTPDoError(cause) ==
    [values |-> <<>>, err |-> Join(cause, "Failed to send http request...")]

\* The error doHTTP builds from the X-Error header of a response.
APIError(r) ==
    [msg |-> "API Error",
     detail |-> Sprintf(<<"A", "P", "I", " ", "E", "r", "r", "o", "r",
                          " ", ":", " ", "%", "v">>,
                        <<HeaderGet(r.Header, xErrorHeader)>>),
     cause |-> "<nil>"]

\* doHTTP without its check of the status: every body is read and parsed.
doHTTPResponse_NoStatusCheck(r) ==
    IF r.Body.readErr
    THEN [values |-> <<>>, err |-> Join("read error", "Failed read response"),
          closed |-> TRUE]
    ELSE LET q == ParseQuery(r.Body.data)
         IN  IF q.err # Nil
             THEN [values |-> <<>>,
                   err |-> Join(q.err.msg, "Failed to parse response values"),
                   closed |-> TRUE]
             ELSE [values |-> q.values, err |-> Nil, closed |-> TRUE]

\* doHTTP with the deferred Close registered after the check of the status.
doHTTPResponse_CloseAfterStatusCheck(r) ==
    IF r.StatusCode # StatusOK
    THEN [values |-> <<>>, err |-> APIError(r), closed |-> FALSE]
    ELSE doHTTPResponse_NoStatusCheck(r)

\* doHTTP from the return of client.Do with a response on: the values and
\* error it returns, and whether the deferred resp.Body.Close() has run.
doHTTPResponse(r) ==
    IF r.StatusCode # StatusOK
    THEN [values |-> <<>>, err |-> APIError(r), closed |-> TRUE]
    ELSE IF r.Body.readErr
    THEN [values |-> <<>>, err |-> Join("read error", "Failed read response"),
          closed |-> TRUE]
    ELSE LET q == ParseQuery(r.Body.data)
         IN  IF q.err # Nil
             THEN [values |-> <<>>,
                   err |-> Join(q.err.msg, "Failed to parse response values"),
                   closed |-> TRUE]
             ELSE [values |-> q.values, err |-> Nil, closed |-> TRUE]

\* GetRequestToken reading the field access_token.
GetRequestTokenReturn_WrongField(values, err) ==
    IF err # Nil THEN [str |-> <<>>, err |-> err]
    ELSE LET requestToken == Get(values, <<"a", "c", "c", "e", "s", "s", "_",
                                           "t", "o", "k", "e", "n">>)
         IN  IF requestToken = <<>>
             THEN [str |-> <<>>, err |-> New("Empty request token in API response")]
             ELSE [str |-> requestToken, err |-> Nil]

\* GetRequestToken after doHTTP.
GetRequestTokenReturn(values, err) ==
    IF err # Nil THEN [str |-> <<>>, err |-> err]
    ELSE LET requestToken == Get(values, codeKey)
         IN  IF requestToken = <<>>
             THEN [str |-> <<>>, err |-> New("Empty request token in API response")]
             ELSE [str |-> requestToken, err |-> Nil]

\* GetAccessToken without its check of an empty token.
GetAccessTokenReturn_NoEmptyCheck(values, err) ==
    IF err # Nil THEN [str |-> <<>>, err |-> err]
    ELSE [str |-> Get(values, codeKey), err |-> Nil]

\* GetAccessToken after doHTTP.
GetAccessTokenReturn(values, err) ==
    IF err # Nil THEN [str |-> <<>>, err |-> err]
    ELSE LET accessToken == Get(values, codeKey)
         IN  IF accessToken = <<>>
             THEN [str |-> <<>>, err |-> New("Empty access token in API response")]
             ELSE [str |-> accessToken, err |-> Nil]

\* Add after doHTTP.
AddReturn(values, err) == [str |-> <<>>, err |-> err]

\* The result of the operation that called doHTTP.
OpReturn(op, values, err) ==
    CASE op = "GetRequestToken" -> GetRequestTokenReturn(values, err)
      [] op = "GetAccessToken" -> GetAccessTokenReturn(values, err)
      [] op = "Add" -> AddReturn(values, err)

\* The call returns without having reached client.Do.
ReturnNow(r) ==
    /\ pc' = "returned"
    /\ ret' = r
    /\ inflight' = <<>>
    /\ sent' = 0

\* The call runs doHTTP up to client.Do and blocks there, or returns the
\* error doHTTP met before.
CallDoHTTP(op, ctx, endpoint, body) ==
    LET s == doHTTPSend(ctx, endpoint, body)
    IN  IF s.err # Nil
        THEN ReturnNow(OpReturn(op, <<>>, s.err))
        ELSE /\ pc' = "waiting"
             /\ ret' = NoRet
             /\ inflight' = s.reqs
             /\ sent' = Len(s.reqs)

GetRequestToken(ctx, redirectUri) ==
    /\ pc = "idle"
    /\ call' = [op |-> "GetRequestToken", ctx |-> ctx, args |-> <<redirectUri>>]
    /\ IF redirectUri = <<>>
       THEN ReturnNow([str |-> <<>>, err |-> New("ReditectUri is empty")])
       ELSE CallDoHTTP("GetRequestToken", ctx, endpointRequestToken,
                       [ConsumerKey |-> consumerKey, RedirectURI |-> redirectUri])
    /\ UNCHANGED <<consumerKey, resp, openBodies>>

\* GetAuthorizationURL with the two arguments of Sprintf exchanged.
GetAuthorizationURLReturn_Swapped(requestToken, redirectUrl) ==
    IF requestToken = <<>>
    THEN [str |-> <<>>, err |-> New("RequestToken is empty")]
    ELSE IF redirectUrl = <<>>
    THEN [str |-> <<>>, err |-> New("RedirectUrl is empty")]
    ELSE [str |-> Sprintf(authorizeURL, <<redirectUrl, requestToken>>), err |-> Nil]

\* GetAuthorizationURL(requestToken, redirectUrl): the string and the error
\* it returns.
GetAuthorizationURLReturn(requestToken, redirectUrl) ==
    IF requestToken = <<>>
    THEN [str |-> <<>>, err |-> New("RequestToken is empty")]
    ELSE IF redirectUrl = <<>>
    THEN [str |-> <<>>, err |-> New("RedirectUrl is empty")]
    ELSE [str |-> Sprintf(authorizeURL, <<requestToken, redirectUrl>>), err |-> Nil]

GetAuthorizationURL(ctx, requestToken, redirectUrl) ==
    /\ pc = "idle"
    /\ call' = [op |-> "GetAuthorizationURL", ctx |-> ctx,
                args |-> <<requestToken, redirectUrl>>]
    /\ ReturnNow(GetAuthorizationURLReturn(requestToken, redirectUrl))
    /\ UNCHANGED <<consumerKey, resp, openBodies>>

Add(ctx, input) ==
    /\ pc = "idle"
    /\ call' = [op |-> "Add", ctx |-> ctx, args |-> <<input>>]
    /\ IF validate(input) # Nil
       THEN ReturnNow([str |-> <<>>, err |-> validate(input)])
       ELSE CallDoHTTP("Add", ctx, endpointAdd, generateRequest(input, consumerKey))
    /\ UNCHANGED <<consumerKey, resp, openBodies>>

GetAccessToken(ctx, requestToken) ==
    /\ pc = "idle"
    /\ call' = [op |-> "GetAccessToken", ctx |-> ctx, args |-> <<requestToken>>]
    /\ IF requestToken = <<>>
       THEN ReturnNow([str |-> <<>>, err |-> New("RequestToken is empty")])
       ELSE CallDoHTTP("GetAccessToken", ctx, endpointAuthorize,
                       [ConsumerKey |-> consumerKey, Code |-> requestToken])
    /\ UNCHANGED <<consumerKey, resp, openBodies>>

\* A doHTTP that sends the request again when client.Do returns an error.
DoError_Retry(cause) ==
    /\ pc = "waiting"
    /\ inflight # <<>>
    /\ resp' = [kind |-> "error", cause |-> cause]
    /\ inflight' = Tail(inflight) \o <<Head(inflight)>>
    /\ sent' = sent + 1
    /\ UNCHANGED <<consumerKey, pc, call, openBodies, ret>>

\* client.Do returns an error and no response; doHTTP and the operation
\* return it.
DoError(cause) ==
    /\ pc = "waiting"
    /\ inflight # <<>>
    /\ LET d == doHTTPDoError(cause)
       IN  /\ ret' = OpReturn(call.op, d.values, d.err)
           /\ resp' = [kind |-> "error", cause |-> cause]
    /\ inflight' = Tail(inflight)
    /\ pc' = "returned"
    /\ UNCHANGED <<consumerKey, call, sent, openBodies>>

\* client.Do returns a response, its body open; doHTTP runs to its return
\* and the operation returns.
DoResponse(r) ==
    /\ pc = "waiting"
    /\ inflight # <<>>
    /\ LET d == doHTTPResponse(r)
       IN  /\ ret' = OpReturn(call.op, d.values, d.err)
           /\ openBodies' = (openBodies + 1) - (IF d.closed THEN 1 ELSE 0)
    /\ resp' = [kind |-> "response", r |-> r]
    /\ inflight' = Tail(inflight)
    /\ pc' = "returned"
    /\ UNCHANGED <<consumerKey, call, sent>>

\* The caller takes the result; the client is ready for the next call.
Return ==
    /\ pc = "returned"
    /\ pc' = "idle"
    /\ call' = NoCall
    /\ resp' = NoResp
    /\ ret' = NoRet
    /\ sent' = 0
    /\ UNCHANGED <<consumerKey, inflight, openBodies>>

Init ==
    /\ consumerKey \in {k \in ConsumerKeys : NewClient(k)}
    /\ pc = "idle"
    /\ call = NoCall
    /\ inflight = <<>>
    /\ sent = 0
    /\ resp = NoResp
    /\ openBodies = 0
    /\ ret = NoRet

CallGetRequestToken == \E ctx \in Contexts, u \in RedirectUris : GetRequestToken(ctx, u)

CallGetAuthorizationURL ==
    \E ctx \in Contexts, t \in UrlArgs, u \in UrlArgs : GetAuthorizationURL(ctx, t, u)

CallAdd == \E ctx \in Contexts, i \in AddInputs : Add(ctx, i)

CallGetAccessToken == \E ctx \in Contexts, t \in RequestTokens : GetAccessToken(ctx, t)

TransportFails == \E cause \in TransportErrors : DoError(cause)

TransportResponds ==
    \E status \in Statuses, header \in Headers, body \in Bodies :
        DoResponse(Response(status, header, body))

Next ==
    \/ CallGetRequestToken
    \/ CallGetAuthorizationURL
    \/ CallAdd
    \/ CallGetAccessToken
    \/ TransportFails
    \/ TransportResponds
    \/ Return

Spec == Init /\ [][Next]_vars

(* ---------------------------- properties ------------------------------ *)

Returned(op) == pc = "returned" /\ call.op = op

GotResponse == pc = "returned" /\ resp.kind = "response"

\* client.Do answered with status 200 and a body that reads as text b.
Got200(b) ==
    /\ GotResponse
    /\ resp.r.StatusCode = StatusOK
    /\ ~resp.r.Body.readErr
    /\ resp.r.Body.data = b

\* client.Do answered with status 200 and a body that reads as a text that
\* starts with p.
Got200Prefixed(p) ==
    /\ GotResponse
    /\ resp.r.StatusCode = StatusOK
    /\ ~resp.r.Body.readErr
    /\ Len(resp.r.Body.data) >= Len(p)
    /\ SubSeq(resp.r.Body.data, 1, Len(p)) = p

\* The text of that body after p.
BodyAfter(p) == SubSeq(resp.r.Body.data, Len(p) + 1, Len(resp.r.Body.data))

\* A required input of the call is empty.
EmptyRequired ==
    \/ call.op \in {"GetRequestToken", "GetAccessToken"} /\ call.args[1] = <<>>
    \/ call.op = "Add" /\ (call.args[1].URL = <<>> \/ call.args[1].AccessToken = <<>>)

\* C1: a call of GetRequestToken, GetAccessToken or Add with an empty
\* required input never waits on the transport, and returns an error having
\* handed no request to client.Do, whatever its other inputs.
C1_EmptyInputNoRequest ==
    EmptyRequired =>
        /\ pc # "waiting"
        /\ inflight = <<>>
        /\ sent = 0
        /\ resp = NoResp
        /\ pc = "returned" => ret.err # Nil /\ ret.str = <<>>

C1_Witness ==
    /\ Returned("Add")
    /\ call.args[1].URL # <<>>
    /\ call.args[1].Title # <<>>
    /\ call.args[1].AccessToken = <<>>
    /\ call.ctx = "background"
    /\ ret.err = New("access token is empty")

\* C2: GetAccessToken with a non-empty requestToken, on a 200 response whose
\* body is access_token=<t>, returns t and a nil error when t is not empty,
\* and an error when t is empty.
C2_AccessTokenFromBody ==
    (Returned("GetAccessToken") /\ Got200Prefixed(accessTokenBody)) =>
        LET t == BodyAfter(accessTokenBody)
        IN  IF t = <<>> THEN ret.err # Nil
            ELSE ret = [str |-> t, err |-> Nil]

\* C3: Add with a valid input returns a nil error on every response of
\* status 200, whatever the body holds.
C3_AddSucceedsOnAny200 ==
    (Returned("Add") /\ GotResponse /\ resp.r.StatusCode = StatusOK
        /\ ~resp.r.Body.readErr)
        => ret.err = Nil

\* C4: when the response status is not 200, GetRequestToken, GetAccessToken
\* and Add return an error and no token, whatever the body holds.
C4_Non200Fails ==
    (GotResponse /\ resp.r.StatusCode # StatusOK) =>
        /\ call.op \in {"GetRequestToken", "GetAccessToken", "Add"}
        /\ ret.err # Nil
        /\ ret.str = <<>>

C4_Witness ==
    /\ Returned("GetRequestToken")
    /\ GotResponse
    /\ resp.r.StatusCode # StatusOK
    /\ resp.r.Body.data = codeKey \o <<"=", "4">>
    /\ ret.err # Nil

\* The decoded body b has no code field, or an empty one.
NoCode(b) ==
    LET q == ParseQuery(b)
    IN  q.err = Nil /\ \A i \in 1..Len(q.values) :
                          q.values[i][1] = codeKey => q.values[i][2] = <<>>

C6_ReturnsTokenVerbatim ==
    (Returned("GetRequestToken") /\ Got200Prefixed(codeKey \o <<"=">>)
        /\ BodyAfter(codeKey \o <<"=">>) # <<>>)
        => ret = [str |-> BodyAfter(codeKey \o <<"=">>), err |-> Nil]

\* The characters the query-string decoding does not copy.
QuerySpecials == {"%", "+", "&", ";"}

Plain(t) == \A i \in 1..Len(t) : t[i] \notin QuerySpecials

\* C6 amended: on a 200 response with body code=<t>, t not empty and free
\* of the characters % + & and ;, GetRequestToken returns exactly t and a
\* nil error.
C6_ReturnsPlainTokenVerbatim ==
    (Returned("GetRequestToken") /\ Got200Prefixed(codeKey \o <<"=">>)
        /\ BodyAfter(codeKey \o <<"=">>) # <<>>
        /\ Plain(BodyAfter(codeKey \o <<"=">>)))
        => ret = [str |-> BodyAfter(codeKey \o <<"=">>), err |-> Nil]

C6_Witness ==
    /\ Returned("GetRequestToken")
    /\ call.args[1] = <<"%", "s">>
    /\ Got200(codeKey \o <<"=", "4", "=">>)
    /\ ret = [str |-> <<"4", "=">>, err |-> Nil]

\* C7: GetRequestToken, GetAccessToken and GetAuthorizationURL return a
\* non-empty string exactly when they return a nil error.
C7_StringIffNoError ==
    (pc = "returned"
        /\ call.op \in {"GetRequestToken", "GetAccessToken", "GetAuthorizationURL"})
        => (ret.str # <<>> <=> ret.err = Nil)

C7_Witness ==
    /\ Returned("GetAccessToken")
    /\ Got200(codeKey \o <<"=", "%", "4", "4", "+">>)
    /\ ret = [str |-> <<"D", " ">>, err |-> Nil]

authorizePrefix ==
    <<"h", "t", "t", "p", "s", ":", "/", "/", "g", "e", "t", "p", "o", "c",
      "k", "e", "t", ".", "c", "o", "m", "/", "a", "u", "t", "h", "/", "a",
      "u", "t", "h", "o", "r", "i", "z", "e", "?", "r", "e", "q", "u", "e",
      "s", "t", "_", "t", "o", "k", "e", "n", "=">>

authorizeMiddle ==
    <<"&", "r", "e", "d", "i", "r", "e", "c", "t", "_", "u", "r", "i", "=">>

\* C8: GetAuthorizationURL hands no request to client.Do; it returns an
\* error exactly when one of its two arguments is empty, and otherwise the
\* authorization URL with both arguments inserted as they are, whatever the
\* consumer key.
C8_AuthorizationURL ==
    call.op = "GetAuthorizationURL" =>
        /\ pc = "returned"
        /\ sent = 0
        /\ inflight = <<>>
        /\ resp = NoResp
        /\ LET requestToken == call.args[1]
               redirectUrl  == call.args[2]
           IN  IF requestToken = <<>> \/ redirectUrl = <<>>
               THEN ret.err # Nil /\ ret.str = <<>>
               ELSE ret = [str |-> authorizePrefix \o requestToken
                                       \o authorizeMiddle \o redirectUrl,
                           err |-> Nil]

C8_Witness ==
    /\ Returned("GetAuthorizationURL")
    /\ call.args = << <<"%", "s">>, <<"a">> >>
    /\ consumerKey = <<"K", "2">>
    /\ ret.err = Nil

\* The request of the call failed: a transport error, a status other than
\* 200, a body that cannot be read or cannot be parsed.
RequestFailed ==
    \/ resp.kind = "error"
    \/ /\ resp.kind = "response"
       /\ \/ resp.r.StatusCode # StatusOK
          \/ resp.r.Body.readErr
          \/ ParseQuery(resp.r.Body.data).err # Nil

\* C9: a call hands at most one request to client.Do, and a call whose
\* request failed returns an error, having sent that one request only.
C9_AtMostOneRequest ==
    /\ sent <= 1
    /\ Len(inflight) <= 1
    /\ pc = "returned" => inflight = <<>>
    /\ (pc = "returned" /\ RequestFailed) => ret.err # Nil /\ sent = 1

C9_Witness ==
    /\ Returned("Add")
    /\ resp = [kind |-> "error", cause |-> "timeout"]
    /\ sent = 1
    /\ ret.err = Join("timeout", "Failed to send http request...")

\* C10: no response body is open once doHTTP has returned, on any of its
\* paths.
C10_BodyClosed ==
    pc \in {"idle", "returned"} => openBodies = 0

C10_Witness ==
    /\ Returned("GetRequestToken")
    /\ GotResponse
    /\ resp.r.StatusCode = StatusOK
    /\ ParseQuery(resp.r.Body.data).err # Nil
    /\ openBodies = 0

====
